---- MODULE Spec2Model ----
(***************************************************************************)
(* Model of the ColorCodely backend (src/app.py with src/sheets.py,        *)
(* src/sms.py and src/emailer.py): the Twilio recording-complete webhook,  *)
(* the day guard, the Whisper pipeline and the subscriber fan-out.         *)
(*                                                                         *)
(* Strings that the code inspects character by character are modelled as   *)
(* tuples of one-character strings.  A date string "YYYY-MM-DD" is         *)
(* modelled as the one-element tuple <<d>> of its day number, and Python's *)
(* None as the empty tuple, so that "falsy" (None or "") is emptiness.     *)
(*                                                                         *)
(* Time is a counter of the two parts of an America/Chicago calendar day:  *)
(* clock = 2*d is the part of CST day d in which the UTC date is also d,   *)
(* clock = 2*d + 1 the evening of CST day d, in which UTC (some hours      *)
(* ahead) already shows the date d + 1.                                    *)
(***************************************************************************)
EXTENDS Integers, Sequences, FiniteSets, TLC

\* ---------------------------------------------------------------- bounds
\* Deliveries of the recording-complete webhook (Twilio delivers at least once).
MaxDeliveries == 2
\* Last value of the clock.
MaxClock == 2
\* Process restarts.
MaxRestarts == 1

\* longest text given to extract_colors, in words or phrases
MaxWords == 3

\* longest transcript given to clean_transcription, in sentences
MaxSentences == 3

\* outbound calls /daily-call places
MaxCalls == 1

\* /submit requests handled
MaxSubmits == 1

\* ------------------------------------------------------- string helpers
None == <<>>

LowerLetters ==
    <<"a","b","c","d","e","f","g","h","i","j","k","l","m",
      "n","o","p","q","r","s","t","u","v","w","x","y","z">>

UpperLetters ==
    <<"A","B","C","D","E","F","G","H","I","J","K","L","M",
      "N","O","P","Q","R","S","T","U","V","W","X","Y","Z">>

Digits == {"0","1","2","3","4","5","6","7","8","9"}

Range(s) == {s[i] : i \in DOMAIN s}

\* str.lower() / str.upper(), one character
lower_char(c) ==
    IF \E i \in DOMAIN UpperLetters : UpperLetters[i] = c
    THEN LowerLetters[CHOOSE i \in DOMAIN UpperLetters : UpperLetters[i] = c]
    ELSE c

upper_char(c) ==
    IF \E i \in DOMAIN LowerLetters : LowerLetters[i] = c
    THEN UpperLetters[CHOOSE i \in DOMAIN LowerLetters : LowerLetters[i] = c]
    ELSE c

lower(s) == [i \in DOMAIN s |-> lower_char(s[i])]

upper(s) == [i \in DOMAIN s |-> upper_char(s[i])]

IsSpace(c) == c \in {" ", "\t", "\n", "\r"}

\* the regex class \w
IsWordChar(c) == c \in Range(LowerLetters) \cup Range(UpperLetters) \cup Digits \cup {"_"}

RECURSIVE lstrip(_)
lstrip(s) == IF s # <<>> /\ IsSpace(Head(s)) THEN lstrip(Tail(s)) ELSE s

RECURSIVE rstrip(_)
rstrip(s) ==
    IF s # <<>> /\ IsSpace(s[Len(s)]) THEN rstrip(SubSeq(s, 1, Len(s) - 1)) ELSE s

\* str.strip()
strip(s) == rstrip(lstrip(s))

\* str.split() with no argument: the maximal runs of non-whitespace
RECURSIVE split_from(_, _, _)
split_from(s, i, word) ==
    IF i > Len(s)
    THEN IF word = <<>> THEN <<>> ELSE <<word>>
    ELSE IF IsSpace(s[i])
         THEN IF word = <<>>
              THEN split_from(s, i + 1, <<>>)
              ELSE <<word>> \o split_from(s, i + 1, <<>>)
         ELSE split_from(s, i + 1, Append(word, s[i]))

split(s) == split_from(s, 1, <<>>)

\* sep.join(parts)
RECURSIVE join(_, _)
join(sep, parts) ==
    IF parts = <<>> THEN <<>>
    ELSE IF Len(parts) = 1 THEN parts[1]
    ELSE parts[1] \o sep \o join(sep, Tail(parts))

\* str.startswith
startswith(s, prefix) ==
    Len(prefix) <= Len(s) /\ SubSeq(s, 1, Len(prefix)) = prefix

\* pat matches t at offset i as a plain substring
substring_match_at(pat, t, i) ==
    /\ i + Len(pat) - 1 <= Len(t)
    /\ SubSeq(t, i, i + Len(pat) - 1) = pat

\* rf"\b{pat}\b" matches t at offset i (1-based); every pattern used begins
\* and ends with a word character, so \b holds exactly where the neighbour
\* is absent or is not a word character.
word_match_at(pat, t, i) ==
    /\ i + Len(pat) - 1 <= Len(t)
    /\ SubSeq(t, i, i + Len(pat) - 1) = pat
    /\ (i = 1 \/ ~IsWordChar(t[i - 1]))
    /\ (i + Len(pat) > Len(t) \/ ~IsWordChar(t[i + Len(pat)]))

\* re.sub(rf"\b{pat}\b", rep, t): leftmost non-overlapping matches
RECURSIVE re_sub_from(_, _, _, _)
re_sub_from(pat, rep, t, i) ==
    IF i > Len(t) THEN <<>>
    ELSE IF word_match_at(pat, t, i)
         THEN rep \o re_sub_from(pat, rep, t, i + Len(pat))
         ELSE <<t[i]>> \o re_sub_from(pat, rep, t, i + 1)

re_sub(pat, rep, t) == re_sub_from(pat, rep, t, 1)

\* re.search(rf"\b{pat}\b", t): m.start() + 1 of the leftmost match, 0 for no match
re_search(pat, t) ==
    LET hits == {i \in 1..Len(t) : word_match_at(pat, t, i)}
    IN  IF hits = {} THEN 0 ELSE CHOOSE i \in hits : \A j \in hits : i <= j

\* ------------------------------------------------------ program constants
VALID_COLORS ==
    <<
       <<"a","m","b","e","r">>, <<"a","p","p","l","e">>,
       <<"a","q","u","a">>, <<"b","a","n","a","n","a">>,
       <<"b","e","i","g","e">>, <<"b","l","a","c","k">>,
       <<"b","l","u","e">>, <<"b","o","n","e">>,
       <<"b","r","o","n","z","e">>, <<"b","r","o","w","n">>,
       <<"b","u","r","g","u","n","d","y">>, <<"c","h","a","r","c","o","a","l">>,
       <<"c","h","a","r","t","r","e","u","s","e">>, <<"c","h","e","r","r","y">>,
       <<"c","h","e","s","t","n","u","t">>, <<"c","o","p","p","e","r">>,
       <<"c","o","r","a","l">>, <<"c","r","e","a","m">>,
       <<"c","r","e","m","e">>, <<"c","r","i","m","s","o","n">>,
       <<"e","g","g","p","l","a","n","t">>, <<"e","m","e","r","a","l","d">>,
       <<"f","u","c","h","s","i","a">>, <<"g","i","n","g","e","r">>,
       <<"g","o","l","d">>, <<"g","r","a","y">>,
       <<"g","r","e","e","n">>, <<"h","a","z","e","l">>,
       <<"i","n","d","i","g","o">>, <<"i","v","o","r","y">>,
       <<"j","a","d","e">>, <<"j","a","s","m","i","n","e">>,
       <<"k","h","a","k","i">>, <<"l","a","v","e","n","d","e","r">>,
       <<"l","e","m","o","n">>, <<"l","i","l","a","c">>,
       <<"l","i","m","e">>, <<"m","a","g","e","n","t","a">>,
       <<"m","a","h","o","g","a","n","y">>, <<"m","a","r","o","o","n">>,
       <<"m","a","u","v","e">>, <<"m","i","n","t">>,
       <<"n","a","v","y">>, <<"o","l","i","v","e">>,
       <<"o","n","y","x">>, <<"o","p","a","l">>,
       <<"o","r","a","n","g","e">>, <<"o","r","c","h","i","d">>,
       <<"p","e","a","c","h">>, <<"p","e","a","r","l">>,
       <<"p","e","r","i","w","i","n","k","l","e">>, <<"p","i","n","k">>,
       <<"p","l","a","t","i","n","u","m">>, <<"p","l","u","m">>,
       <<"p","u","r","p","l","e">>, <<"r","a","s","p","b","e","r","r","y">>,
       <<"r","e","d">>, <<"r","o","s","e">>,
       <<"r","u","b","y">>, <<"s","a","g","e">>,
       <<"s","a","p","p","h","i","r","e">>, <<"s","i","e","n","n","a">>,
       <<"s","i","l","v","e","r">>, <<"t","a","n">>,
       <<"t","a","n","g","e","r","i","n","e">>, <<"t","e","a","l">>,
       <<"t","u","r","q","u","o","i","s","e">>, <<"v","a","n","i","l","l","a">>,
       <<"v","i","o","l","e","t">>, <<"w","a","t","e","r","m","e","l","o","n">>,
       <<"w","h","i","t","e">>, <<"y","e","l","l","o","w">>
    >>

ADMIN_EMAIL == <<"c","o","l","o","r","c","o","d","e","l","y","@","g","m","a","i","l",".","c","o","m">>

NO_CODES_CONFIRMED == <<"N","O"," ","C","O","D","E","S"," ","C","O","N","F","I","R","M","E","D">>

\* --------------------------------------------------------- small helpers
is_valid_email(email) ==
    IF email = <<>> THEN FALSE
    ELSE LET e == lower(strip(email))
         IN  IF e = <<"e","m","a","i","l">> THEN FALSE
             ELSE ("@" \in Range(e)) /\ ("." \in Range(e))

is_valid_phone(phone) ==
    IF phone = <<>> THEN FALSE
    ELSE LET p == strip(phone)
         IN  startswith(p, <<"+">>) /\ Len(p) >= 10

\* ----------------------------------------- text cleanup, color extraction
normalize_common_mishears(text) ==
    IF text = <<>> THEN text
    ELSE LET t     == join(<<" ">>, split(text))
             t_low == lower(t)
             t1 == re_sub(<<"l","i","l","a","c"," ","m","a","l","l">>, <<"l","i","l","a","c"," ","m","a","u","v","e">>, t_low)
             t2 == re_sub(<<"r","o","l","l","s">>, <<"r","o","s","e">>, t1)
             t3 == re_sub(<<"a"," ","p","l","a","n","t">>, <<"e","g","g","p","l","a","n","t">>, t2)
             t4 == re_sub(<<"8"," ","p","l","a","n","t">>, <<"e","g","g","p","l","a","n","t">>, t3)
             t5 == re_sub(<<"e","g","g"," ","p","l","a","n","t">>, <<"e","g","g","p","l","a","n","t">>, t4)
             t6 == re_sub(<<"c","r","e","m","e">>, <<"c","r","e","a","m">>, t5)
         IN  t6

\* the (start, color) pairs left in the order of VALID_COLORS
sort_by_vocabulary(ps) == ps

\* list.sort(key=lambda x: x[0]) on (start, color) pairs: a stable insertion sort
RECURSIVE insert_by_start(_, _)
insert_by_start(p, sorted) ==
    IF sorted = <<>> THEN <<p>>
    ELSE IF p[1] < Head(sorted)[1]
         THEN <<p>> \o sorted
         ELSE <<Head(sorted)>> \o insert_by_start(p, Tail(sorted))

RECURSIVE sort_by_start(_)
sort_by_start(ps) ==
    IF ps = <<>> THEN <<>>
    ELSE insert_by_start(ps[Len(ps)], sort_by_start(SubSeq(ps, 1, Len(ps) - 1)))

\* the loop over VALID_COLORS that collects (m.start(), color)
RECURSIVE color_positions(_, _)
color_positions(t, k) ==
    IF k > Len(VALID_COLORS) THEN <<>>
    ELSE LET start == re_search(VALID_COLORS[k], t)
         IN  (IF start > 0 THEN <<<<start, VALID_COLORS[k]>>>> ELSE <<>>)
             \o color_positions(t, k + 1)

\* the loop that drops colors already seen and upper-cases the rest
RECURSIVE dedupe_upper(_, _)
dedupe_upper(ps, seen) ==
    IF ps = <<>> THEN <<>>
    ELSE LET color == Head(ps)[2]
         IN  IF color \notin seen
             THEN <<upper(color)>> \o dedupe_upper(Tail(ps), seen \cup {color})
             ELSE dedupe_upper(Tail(ps), seen)

\* (t is bound by a quantifier so that it is evaluated once)
extract_colors(transcribed_text) ==
    IF transcribed_text = <<>> THEN <<>>
    ELSE CHOOSE found \in
             {dedupe_upper(sort_by_start(color_positions(t, 1)), {}) :
                 t \in {normalize_common_mishears(transcribed_text)}} : TRUE

\* ------------------------------------ transcribe_and_log.py: text cleanup
\* str.find(old, i): the offset of the leftmost occurrence of old in t at or
\* after offset i (1-based), 0 for none
find(t, old, i) ==
    LET hits == {j \in i..(Len(t) - Len(old) + 1) : SubSeq(t, j, j + Len(old) - 1) = old}
    IN  IF hits = {} THEN 0 ELSE CHOOSE j \in hits : \A k \in hits : j <= k

\* old in t
contains(t, old) == find(t, old, 1) > 0

\* str.replace(old, new): the leftmost non-overlapping occurrences
RECURSIVE replace_from(_, _, _, _)
replace_from(t, old, new, i) ==
    LET j == find(t, old, i)
    IN  IF j = 0 THEN SubSeq(t, i, Len(t))
        ELSE SubSeq(t, i, j - 1) \o new \o replace_from(t, old, new, j + Len(old))

replace(t, old, new) == CHOOSE r \in {replace_from(v, old, new, 1) : v \in {t}} : TRUE

\* for bad, good in table: text = text.replace(bad, good)
RECURSIVE replace_all(_, _)
replace_all(t, table) ==
    IF table = <<>> THEN t
    ELSE replace_all(replace(t, table[1][1], table[1][2]), Tail(table))

\* str.split(sep): the pieces between the occurrences of sep, empty ones too
RECURSIVE split_on(_, _, _)
split_on(t, sep, i) ==
    LET j == find(t, sep, i)
    IN  IF j = 0 THEN <<SubSeq(t, i, Len(t))>>
        ELSE <<SubSeq(t, i, j - 1)>> \o split_on(t, sep, j + Len(sep))

\* str.capitalize()
capitalize(t) ==
    IF t = <<>> THEN t ELSE <<upper_char(t[1])>> \o lower(Tail(t))

\* str.endswith
endswith(t, suffix) ==
    Len(suffix) <= Len(t) /\ SubSeq(t, Len(t) - Len(suffix) + 1, Len(t)) = suffix

replacements ==
    <<<<<<"c","o","l","o","r"," ","g","o","l","d">>,
        <<"c","o","l","o","r"," ","c","o","d","e">>>>,
      <<<<"c","o","l","o","r"," ","g","o","a","l">>,
        <<"c","o","l","o","r"," ","c","o","d","e">>>>,
      <<<<"c","o","l","o","r","-","g","o","a","l">>,
        <<"c","o","l","o","r"," ","c","o","d","e">>>>,
      <<<<"c","o","l","o","r","-","g","o","l","d">>,
        <<"c","o","l","o","r"," ","c","o","d","e">>>>,
      <<<<"c","o","l","o","r"," ","c","o","a","t">>,
        <<"c","o","l","o","r"," ","c","o","d","e">>>>,
      <<<<"d","r","u","g"," ","s","t","r","e","e","t">>,
        <<"d","r","u","g"," ","s","c","r","e","e","n">>>>>>

stop_phrase == <<"y","o","u"," ","m","u","s","t"," ","r","e","p","o","r","t"," ","t","o"," ","d","r","u","g"," ","s","c","r","e","e","n",".">>

proper_replacements ==
    <<<<<<"c","i","t","y"," ","o","f"," ","h","u","n","t","s","v","i","l","l","e">>,
        <<"C","i","t","y"," ","o","f"," ","H","u","n","t","s","v","i","l","l","e">>>>,
      <<<<"h","u","n","t","s","v","i","l","l","e">>,
        <<"H","u","n","t","s","v","i","l","l","e">>>>,
      <<<<"m","a","d","i","s","o","n"," ","c","o","u","n","t","y">>,
        <<"M","a","d","i","s","o","n"," ","C","o","u","n","t","y">>>>>>

days ==
    <<<<"M","o","n","d","a","y">>,
      <<"T","u","e","s","d","a","y">>,
      <<"W","e","d","n","e","s","d","a","y">>,
      <<"T","h","u","r","s","d","a","y">>,
      <<"F","r","i","d","a","y">>,
      <<"S","a","t","u","r","d","a","y">>,
      <<"S","u","n","d","a","y">>>>

months ==
    <<<<"J","a","n","u","a","r","y">>,
      <<"F","e","b","r","u","a","r","y">>,
      <<"M","a","r","c","h">>,
      <<"A","p","r","i","l">>,
      <<"M","a","y">>,
      <<"J","u","n","e">>,
      <<"J","u","l","y">>,
      <<"A","u","g","u","s","t">>,
      <<"S","e","p","t","e","m","b","e","r">>,
      <<"O","c","t","o","b","e","r">>,
      <<"N","o","v","e","m","b","e","r">>,
      <<"D","e","c","e","m","b","e","r">>>>

\* a cleanup that keeps what follows the end phrase
keep_after_end_phrase(text) == text

\* "Stop at official end phrase if present"
stop_at_end_phrase(text) ==
    IF contains(text, stop_phrase)
    THEN split_on(text, stop_phrase, 1)[1] \o stop_phrase
    ELSE text

\* the loop over text.split(".") that keeps the first of equal sentences
RECURSIVE dedupe_sentences(_, _)
dedupe_sentences(parts, seen) ==
    IF parts = <<>> THEN <<>>
    ELSE LET s == strip(Head(parts))
             s_cap == capitalize(s)
         IN  IF s = <<>> THEN dedupe_sentences(Tail(parts), seen)
             ELSE IF s_cap \notin seen
                  THEN <<s_cap>> \o dedupe_sentences(Tail(parts), seen \cup {s_cap})
                  ELSE dedupe_sentences(Tail(parts), seen)

\* for d in days: text = text.replace(d.lower(), d), and the same for months
RECURSIVE capitalize_names(_, _)
capitalize_names(t, names) ==
    IF names = <<>> THEN t
    ELSE capitalize_names(replace(t, lower(names[1]), names[1]), Tail(names))

\* "Fix common Whisper mishearings", after text.lower().strip()
fix_mishearings(text) == replace_all(strip(lower(text)), replacements)

\* "Split into sentences and deduplicate", joined again with ". " and ended
\* with a period
split_and_deduplicate(text) ==
    LET sentences == dedupe_sentences(split_on(text, <<".">>, 1), {})
        joined    == join(<<".", " ">>, sentences)
    IN  IF endswith(joined, <<".">>) THEN joined ELSE Append(joined, ".")

\* "Capitalize proper nouns"
capitalize_proper_nouns(text) == replace_all(text, proper_replacements)

\* "Capitalize days and months"
capitalize_days_and_months(text) == capitalize_names(text, days \o months)

clean_transcription(text) ==
    strip(capitalize_days_and_months(capitalize_proper_nouns(
        split_and_deduplicate(stop_at_end_phrase(fix_mishearings(text))))))

\* ------------------------------------------------------------ environment
\* What Whisper returns for a recording (j.get("text").strip()):
\* an announcement (with a known mishearing) or a closure notice.
Transcripts ==
    << <<"A","m","b","e","r",","," "," ","r","o","l","l","s",".">>,
       <<"t","h","e"," ","o","f","f","i","c","e"," ","i","s"," ","c","l","o","s","e","d">> >>

\* The recordings Twilio holds (one per call /daily-call placed), named by
\* RecordingSid, and the transcript of each.
RecordingSids == DOMAIN Transcripts

RecordingText(sid) == Transcripts[sid]

\* The Subscribers sheet, columns A..E: full_name | email | cell_number |
\* testing_center | active.  Row 1 is the header row.
HUNTSVILLE == "AL_HSV_Municipal_Court"

SubscribersSheet ==
    << <<"full_name", <<"e","m","a","i","l">>, <<"c","e","l","l","_","n","u","m","b","e","r">>, "testing_center", "active">>,
       <<"Ann", <<"a","n","n","@","x",".","i","o">>, <<"+","1","2","5","6","5","5","5","0","1","0","1">>, HUNTSVILLE, "YES">>,
       <<"Bob", <<"b","o","b","@","x",".","i","o">>, <<"+","1","2","5","6","5","5","5","0","1","0","2">>, HUNTSVILLE, "NO">>,
       <<"Cy", <<"c","y","@","x",".","i","o">>, <<"+","1","2","5","6","5","5","5","0","1","0","3">>, "AL_HSV_MCOAS", "YES">> >>

\* os.environ with every setting the service and the script read set.  The
\* values the code inspects are written out; the others are opaque.
FullEnviron ==
    [APP_BASE_URL       |-> "set",
     TWILIO_ACCOUNT_SID |-> "set",
     TWILIO_AUTH_TOKEN  |-> "set",
     TWILIO_FROM_NUMBER |-> "set",
     OPENAI_API_KEY     |-> "set",
     TESTING_CENTER     |-> <<"A","L","_","H","S","V","_","M","u","n","i","c","i","p","a","l","_","C","o","u","r","t">>,
     PUBLIC_TO_EMAIL    |-> <<"o","p","s","@","x",".","i","o">>]

\* the keys of CENTER_CONFIG
CENTER_CONFIG ==
    { <<"A","L","_","H","S","V","_","M","u","n","i","c","i","p","a","l","_","C","o","u","r","t">>,
      <<"A","L","_","H","S","V","_","M","C","O","A","S">> }

\* Rows the Subscribers sheet may hold below its header, as the Sheets API
\* returns them (cells as text, trailing empty cells left out): active and
\* inactive subscribers of both centers, cells with stray blanks and lower
\* case, and a row whose active cell is empty.
SubscriberRows ==
    << <<<<"A","n","n">>, <<"a","n","n","@","x",".","i","o">>, <<"+","1","2","5","6","5","5","5","0","1","0","1">>, <<"A","L","_","H","S","V","_","M","u","n","i","c","i","p","a","l","_","C","o","u","r","t">>, <<"Y","E","S">>>>,
       <<<<"B","o","b">>, <<"b","o","b","@","x",".","i","o">>, <<"+","1","2","5","6","5","5","5","0","1","0","2">>, <<"A","L","_","H","S","V","_","M","u","n","i","c","i","p","a","l","_","C","o","u","r","t">>, <<"N","O">>>>,
       <<<<"C","y">>, <<"c","y","@","x",".","i","o">>, <<"+","1","2","5","6","5","5","5","0","1","0","3">>, <<"A","L","_","H","S","V","_","M","C","O","A","S">>, <<"Y","E","S">>>>,
       <<<<"D","e","e">>, <<" ","d","e","e","@","x",".","i","o"," ">>, <<"+","1","2","5","6","5","5","5","0","1","0","4">>, <<" ","A","L","_","H","S","V","_","M","u","n","i","c","i","p","a","l","_","C","o","u","r","t">>, <<"y","e","s"," ">>>>,
       <<<<"E","v","e">>, <<"e","v","e","@","x",".","i","o">>, <<"+","1","2","5","6","5","5","5","0","1","0","5">>, <<"A","L","_","H","S","V","_","M","u","n","i","c","i","p","a","l","_","C","o","u","r","t">>>> >>

\* the rows of SubscriberRows whose index is in S, in sheet order, below a header
SheetOf(S) ==
    LET f[i \in 0..Len(SubscriberRows)] ==
            IF i = 0 THEN <<SubscribersSheet[1]>>
            ELSE IF i \in S THEN Append(f[i - 1], SubscriberRows[i])
            ELSE f[i - 1]
    IN  f[Len(SubscriberRows)]

SubscriberSheets == {SheetOf(S) : S \in SUBSET DOMAIN SubscriberRows}

\* what Whisper returns to the script: a looped announcement, or one cut short
RawTexts ==
    { <<"C","o","l","o","r","s",":"," ","a","m","b","e","r","."," ","Y","o","u"," ","m","u","s","t"," ","r","e","p","o","r","t"," ","t","o"," ","d","r","u","g"," ","s","c","r","e","e","n","."," ","C","o","l","o","r","s",":"," ","a","m","b","e","r","."," ","Y","o","u"," ","m","u","s","t"," ","r","e","p","o","r","t"," ","t","o"," ","d","r","u","g"," ","s","c","r","e","e","n",".">>,
      <<"C","o","l","o","r","s",":"," ","a","m","b","e","r">> }

\* ------------------------------------------------------------- /submit
\* Carrd form posts: a complete one with padded values, one without an
\* email key, one whose phone is blank, one without a testing center, and
\* one under the alternative key names with no name and a phone number
\* that does not start with "+".
Forms ==
    {[full_name |-> <<"F","a","y">>, email |-> <<" ","f","a","y","@","x",".","i","o">>, phone |-> <<"+","1","2","5","6","5","5","5","0","1","0","6"," ">>, testing_center |-> <<"A","L","_","H","S","V","_","M","u","n","i","c","i","p","a","l","_","C","o","u","r","t">>],
     [full_name |-> <<"F","a","y">>, phone |-> <<"+","1","2","5","6","5","5","5","0","1","0","6">>, testing_center |-> <<"A","L","_","H","S","V","_","M","u","n","i","c","i","p","a","l","_","C","o","u","r","t">>],
     [full_name |-> <<"F","a","y">>, email |-> <<"f","a","y","@","x",".","i","o">>, phone |-> <<" ">>, testing_center |-> <<"A","L","_","H","S","V","_","M","u","n","i","c","i","p","a","l","_","C","o","u","r","t">>],
     [full_name |-> <<"F","a","y">>, email |-> <<"f","a","y","@","x",".","i","o">>, phone |-> <<"+","1","2","5","6","5","5","5","0","1","0","6">>],
     [Email |-> <<"g","u","s","@","x",".","i","o">>, cell |-> <<"2","5","6","5","5","5","0","1","0","7">>, testing_center |-> <<"A","L","_","H","S","V","_","M","u","n","i","c","i","p","a","l","_","C","o","u","r","t">>]}

\* extract_colors on the transcripts that occur, evaluated once
extract_colors_of == [t \in Range(Transcripts) |-> extract_colors(t)]

\* ------------------------------------------------------------------ state
VARIABLES
    clock,                          \* CST wall-clock time, in parts of days
    LAST_SUCCESSFUL_SEND_DATE_CST,  \* app.py module global
    transcriptions,                 \* rows of the DailyTranscriptions sheet
    subscribers,                    \* rows of the Subscribers sheet
    delivered,                      \* webhook deliveries handled so far
    run,                            \* run[n]: the worker thread of delivery n
    sent,                           \* send_sms / send_email tasks dispatched to subscribers
    adminMail,                      \* send_email tasks dispatched to ADMIN_EMAIL
    epoch,                          \* process lifetimes so far (restarts)
    outcomes,                       \* how each started send task ended, once it has run
    input,                          \* the argument of the text function under test
    output,                         \* <<what it returned>>, empty before the call
    environ,                        \* os.environ: the settings that are set, and their values
    script,                         \* position of a run of the script transcribe_and_log.py
    smtp,                           \* the server.sendmail calls of the script
    process,                        \* the web process: starting, serving or crashed
    responses,                      \* the responses /daily-call has given
    calls,                          \* outbound calls placed through twilio_client.calls.create
    welcome,                        \* send_sms / send_email tasks dispatched by /submit
    submitted                       \* the /submit requests handled so far, with their responses

vars == <<clock, LAST_SUCCESSFUL_SEND_DATE_CST, transcriptions, subscribers,
          delivered, run, sent, adminMail, epoch, outcomes, input, output, environ, script, smtp, process, responses, calls, welcome, submitted>>

Runs == 1..MaxDeliveries

\* run[n] holds the thread's position (pc), its locals (sid, today, text,
\* colors) and a record of what happened to it: the process lifetime it was
\* started in (epoch), how it ended (outcome), which calls failed, whether
\* the guard let it through (admitted), the CST day of its fan-out (fanDay)
\* and of its write of LAST_SUCCESSFUL_SEND_DATE_CST (markDay), and whether
\* an earlier delivery of the same recording had already run to the end with
\* no failed call when it arrived (priorSent), and the messages the thread
\* wrote with app.logger (logged) and the steps of
\* process_recording_with_whisper it has entered, in order (steps).
Succeeded(r) ==
    /\ run[r].outcome = "sent" /\ run[r].appended
    /\ ~run[r].subsReadFailed /\ ~run[r].guardReadFailed

\* the messages process_recording_with_whisper and send_to_all_subscribers
\* write with app.logger
GUARD_ACTIVE == "Guard active: already sent today. Skipping send."

FAILED_TO_DOWNLOAD == "Failed to download recording"

WHISPER_EXCEPTION == "Whisper exception"

FAILED_TO_SAVE == "Failed to save daily transcription"

FAILED_TO_LOAD == "Failed to load subscribers"

\* what the run logs when its download or transcription step ends in result
failure_logged(result) ==
    IF result = "download" THEN {FAILED_TO_DOWNLOAD}
    ELSE IF result = "raise" THEN {WHISPER_EXCEPTION}
    ELSE {}

\* a worker thread that has not been started
IdleRun ==
    [pc |-> "idle", sid |-> 0, epoch |-> 0, today |-> None,
     text |-> <<>>, colors |-> <<>>, outcome |-> "none",
     guardReadFailed |-> FALSE, saveFailed |-> FALSE, appended |-> FALSE,
     subsReadFailed |-> FALSE, fanDay |-> None, markDay |-> None,
     admitted |-> FALSE, priorSent |-> FALSE, logged |-> {}, steps |-> <<>>]

Active(r) == run[r].pc \notin {"idle", "done"}

\* os.environ.get(name) is truthy
IsSet(name) == name \in DOMAIN environ

\* ----------------------------------------------------------------- clocks
\* now_cst().strftime("%Y-%m-%d")
today_cst_str == <<clock \div 2>>

\* datetime.utcnow().strftime("%Y-%m-%d"): in the evening UTC is a date ahead
utcnow_date_str == <<(clock + 1) \div 2>>

\* f"{dt.strftime('%A').upper()} {dt.strftime('%m/%d/%Y')}" of now_cst()
day_and_date_line == <<clock \div 2>>

\* ----------------------------------------------------------------- sheets
\* get_latest_transcription(): the first two cells of the last row
get_latest_transcription ==
    IF transcriptions = <<>> THEN <<None, None>>
    ELSE LET last == transcriptions[Len(transcriptions)]
         IN  <<last[1], last[2]>>

\* the row save_daily_transcription(text) appends (date_str defaults to the UTC date)
save_daily_transcription_row(transcription_text) ==
    <<utcnow_date_str, transcription_text>>

\* get_all_subscribers(): columns A..D of every row of the sheet
get_all_subscribers ==
    [i \in DOMAIN subscribers |->
        [full_name      |-> subscribers[i][1],
         email          |-> subscribers[i][2],
         cell_number    |-> subscribers[i][3],
         testing_center |-> subscribers[i][4]]]

\* ------------------------------------------------------------- formatting
build_announcement_message(colors_list) ==
    LET header == day_and_date_line
        codes  == IF colors_list # <<>> THEN join(<<",", " ">>, colors_list)
                  ELSE NO_CODES_CONFIRMED
    IN  [subject |-> header, body |-> <<header, codes>>, sms |-> <<header, codes>>]

\* ------------------------------------------------------------ admin mail
\* notify_admin_failure(msg) called by delivery r
notify_admin_failure_silent(r, why) == adminMail

notify_admin_failure(r, why) ==
    IF ADMIN_EMAIL # <<>> /\ is_valid_email(ADMIN_EMAIL)
    THEN adminMail \cup {[run |-> r, to |-> ADMIN_EMAIL, why |-> why]}
    ELSE adminMail

\* --------------------------------------------------------------- actions
\* the service after construction: module globals as app.py sets them, empty
\* DailyTranscriptions sheet, no request handled yet, no call placed
InitService ==
    /\ clock = 0
    /\ LAST_SUCCESSFUL_SEND_DATE_CST = None
    /\ transcriptions = <<>>
    /\ delivered = 0
    /\ run = [r \in Runs |-> IdleRun]
    /\ sent = {}
    /\ adminMail = {}
    /\ epoch = 0
    /\ outcomes = <<>>
    /\ calls = 0
    /\ welcome = {}
    /\ submitted = <<>>

\* the web process is serving; no text function under test, no run of the script
InitRest ==
    /\ input = <<>>
    /\ output = <<>>
    /\ script = "none"
    /\ smtp = <<>>
    /\ process = "serving"
    /\ responses = {}

Init ==
    /\ InitService
    /\ subscribers = SubscribersSheet
    /\ environ = FullEnviron
    /\ InitRest

\* /twilio/recording-complete for the recording of call sid; has_url is
\* whether the form carries RecordingUrl
recording_complete(sid, has_url) ==
    /\ delivered < MaxDeliveries
    /\ delivered' = delivered + 1
    /\ LET r == delivered + 1
       IN  IF ~has_url
           THEN /\ adminMail' = notify_admin_failure(r, "no_url")
                /\ run' = [run EXCEPT ![r] = [@ EXCEPT !.pc = "done", !.sid = sid,
                                                !.epoch = epoch, !.outcome = "no_url"]]
           ELSE /\ run' = [run EXCEPT ![r] = [@ EXCEPT !.pc = "guard", !.sid = sid,
                                                !.epoch = epoch,
                                                !.priorSent = \E q \in Runs :
                                                    run[q].sid = sid /\ Succeeded(q)]]
                /\ UNCHANGED adminMail
    /\ UNCHANGED <<clock, LAST_SUCCESSFUL_SEND_DATE_CST, transcriptions,
                   subscribers, sent, epoch, outcomes, input, output, environ, script, smtp, process, responses, calls, welcome, submitted>>

\* should_send_today_guard(), first half: the in-memory check
guard_hit(last, today) == last = today

\* a guard whose verdict is only acted on at the end of the run
guard_memory_late(r) ==
    /\ run[r].pc = "guard"
    /\ LET today == today_cst_str
       IN  IF guard_hit(LAST_SUCCESSFUL_SEND_DATE_CST, today)
           THEN run' = [run EXCEPT ![r] = [@ EXCEPT !.pc = "download", !.today = today,
                                           !.outcome = "skipped",
                                           !.steps = Append(@, "guard")]]
           ELSE run' = [run EXCEPT ![r] = [@ EXCEPT !.pc = "guard_sheets", !.today = today,
                                           !.steps = Append(@, "guard")]]
    /\ UNCHANGED <<clock, LAST_SUCCESSFUL_SEND_DATE_CST, transcriptions,
                   subscribers, delivered, sent, adminMail, epoch, outcomes, input, output, environ, script, smtp, process, responses, calls, welcome, submitted>>

guard_memory(r) ==
    /\ run[r].pc = "guard"
    /\ LET today == today_cst_str
       IN  IF guard_hit(LAST_SUCCESSFUL_SEND_DATE_CST, today)
           THEN run' = [run EXCEPT ![r] = [@ EXCEPT !.pc = "done", !.today = today,
                                           !.outcome = "skipped",
                                           !.logged = @ \cup {GUARD_ACTIVE},
                                           !.steps = Append(@, "guard")]]
           ELSE run' = [run EXCEPT ![r] = [@ EXCEPT !.pc = "guard_sheets", !.today = today,
                                           !.steps = Append(@, "guard")]]
    /\ UNCHANGED <<clock, LAST_SUCCESSFUL_SEND_DATE_CST, transcriptions,
                   subscribers, delivered, sent, adminMail, epoch, outcomes, input, output, environ, script, smtp, process, responses, calls, welcome, submitted>>

\* should_send_today_guard(), second half: the Sheets fallback; read_ok is
\* whether get_latest_transcription() returned rather than raised
sheets_hit(last_date, today) == last_date # None /\ startswith(last_date, today)

guard_sheets(r, read_ok) ==
    /\ run[r].pc = "guard_sheets"
    /\ LET today     == run[r].today
           last_date == get_latest_transcription[1]
       IN  IF read_ok /\ sheets_hit(last_date, today)
           THEN /\ LAST_SUCCESSFUL_SEND_DATE_CST' = today
                /\ run' = [run EXCEPT ![r] = [@ EXCEPT !.pc = "done", !.outcome = "skipped",
                                                !.logged = @ \cup {GUARD_ACTIVE}]]
           ELSE /\ run' = [run EXCEPT ![r] = [@ EXCEPT !.pc = "download",
                                                !.admitted = TRUE,
                                                !.guardReadFailed = ~read_ok]]
                /\ UNCHANGED LAST_SUCCESSFUL_SEND_DATE_CST
    /\ UNCHANGED <<clock, transcriptions, subscribers, delivered, sent,
                   adminMail, epoch, outcomes, input, output, environ, script, smtp, process, responses, calls, welcome, submitted>>

\* the steps a run enters between the guard and the save, by how they end:
\* extract_colors normalizes the text (normalize_common_mishears) and then
\* matches the colors
steps_entered(result) ==
    IF result = "download" THEN <<"download">>
    ELSE IF result \in {"raise", "error"} THEN <<"download", "transcribe">>
    ELSE <<"download", "transcribe", "normalize", "extract">>

\* a run that counts the day as handled when it gives up
download_and_transcribe_marking(r, result) ==
    /\ run[r].pc = "download"
    /\ ~IsSet("OPENAI_API_KEY") => result \in {"download", "raise"}
    /\ IF result \in {"download", "raise", "error"}
       THEN /\ adminMail' = notify_admin_failure(r, result)
            /\ LAST_SUCCESSFUL_SEND_DATE_CST' = run[r].today
            /\ run' = [run EXCEPT ![r] = [@ EXCEPT !.pc = "done", !.outcome = result,
                                            !.logged = @ \cup failure_logged(result),
                                            !.steps = @ \o steps_entered(result)]]
       ELSE LET text   == RecordingText(run[r].sid)
                colors == extract_colors_of[text]
            IN  IF colors = <<>>
                THEN /\ adminMail' = notify_admin_failure(r, "no_colors")
                     /\ LAST_SUCCESSFUL_SEND_DATE_CST' = run[r].today
                     /\ run' = [run EXCEPT ![r] = [@ EXCEPT !.pc = "done", !.text = text,
                                                     !.outcome = "no_colors",
                                                     !.steps = @ \o steps_entered(result)]]
                ELSE /\ run' = [run EXCEPT ![r] = [@ EXCEPT !.pc = "save", !.text = text,
                                                     !.colors = colors,
                                                     !.steps = @ \o steps_entered(result)]]
                     /\ UNCHANGED <<adminMail, LAST_SUCCESSFUL_SEND_DATE_CST>>
    /\ UNCHANGED <<clock, transcriptions,
                   subscribers, delivered, sent, epoch, outcomes, input, output, environ, script, smtp, process, responses, calls, welcome, submitted>>

\* download_twilio_recording(...), whisper_transcribe(...) and
\* extract_colors(text): the steps of the run that touch no shared state.
\* result is "download" (the download raised), "raise" (Whisper raised),
\* "error" (an __OPENAI_ERROR__ payload) or "text" (a transcript came back);
\* whisper_transcribe raises at once when OPENAI_API_KEY is not set
download_and_transcribe(r, result) ==
    /\ run[r].pc = "download"
    /\ ~IsSet("OPENAI_API_KEY") => result \in {"download", "raise"}
    /\ IF result \in {"download", "raise", "error"}
       THEN /\ adminMail' = notify_admin_failure(r, result)
            /\ run' = [run EXCEPT ![r] = [@ EXCEPT !.pc = "done", !.outcome = result,
                                            !.logged = @ \cup failure_logged(result),
                                            !.steps = @ \o steps_entered(result)]]
       ELSE LET text   == RecordingText(run[r].sid)
                colors == extract_colors_of[text]
            IN  IF colors = <<>>
                THEN /\ adminMail' = notify_admin_failure(r, "no_colors")
                     /\ run' = [run EXCEPT ![r] = [@ EXCEPT !.pc = "done", !.text = text,
                                                     !.outcome = "no_colors",
                                                     !.steps = @ \o steps_entered(result)]]
                ELSE /\ run' = [run EXCEPT ![r] = [@ EXCEPT !.pc = "save", !.text = text,
                                                     !.colors = colors,
                                                     !.steps = @ \o steps_entered(result)]]
                     /\ UNCHANGED adminMail
    /\ UNCHANGED <<clock, LAST_SUCCESSFUL_SEND_DATE_CST, transcriptions,
                   subscribers, delivered, sent, epoch, outcomes, input, output, environ, script, smtp, process, responses, calls, welcome, submitted>>

\* a run that goes from the colors straight to the fan-out
save_daily_transcription_skipped(r, ok) ==
    /\ run[r].pc = "save"
    /\ run' = [run EXCEPT ![r] = [@ EXCEPT !.pc = "fanout"]]
    /\ UNCHANGED <<clock, LAST_SUCCESSFUL_SEND_DATE_CST, transcriptions, subscribers,
                   delivered, sent, adminMail, epoch, outcomes, input, output, environ, script, smtp, process, responses, calls, welcome, submitted>>

\* a save that writes over the last row of the sheet
save_daily_transcription_overwrite(r, ok) ==
    /\ run[r].pc = "save"
    /\ transcriptions' =
          IF transcriptions = <<>>
          THEN <<save_daily_transcription_row(run[r].text)>>
          ELSE [transcriptions EXCEPT ![Len(transcriptions)] =
                    save_daily_transcription_row(run[r].text)]
    /\ run' = [run EXCEPT ![r] = [@ EXCEPT !.pc = "fanout", !.appended = TRUE,
                                    !.steps = Append(@, "persist")]]
    /\ UNCHANGED <<clock, LAST_SUCCESSFUL_SEND_DATE_CST, subscribers, delivered, sent,
                   adminMail, epoch, outcomes, input, output, environ, script, smtp, process, responses, calls, welcome, submitted>>

\* save_daily_transcription(text) inside try/except: a failure is only logged
save_daily_transcription(r, ok) ==
    /\ run[r].pc = "save"
    /\ IF ok
       THEN /\ transcriptions' =
                   Append(transcriptions, save_daily_transcription_row(run[r].text))
            /\ run' = [run EXCEPT ![r] = [@ EXCEPT !.pc = "fanout", !.appended = TRUE,
                                            !.steps = Append(@, "persist")]]
       ELSE /\ run' = [run EXCEPT ![r] = [@ EXCEPT !.pc = "fanout", !.saveFailed = TRUE,
                                            !.logged = @ \cup {FAILED_TO_SAVE},
                                            !.steps = Append(@, "persist")]]
            /\ UNCHANGED transcriptions
    /\ UNCHANGED <<clock, LAST_SUCCESSFUL_SEND_DATE_CST, subscribers, delivered, sent, adminMail, epoch, outcomes, input, output, environ, script, smtp, process, responses, calls, welcome, submitted>>

\* the tasks send_to_all_subscribers starts for the rows it was given
fanout_sends(r, subs, msg) ==
    {[run |-> r, row |-> i, chan |-> "sms", to |-> strip(subs[i].cell_number),
      codes |-> msg.sms[2], header |-> msg.sms[1]] :
        i \in {j \in DOMAIN subs : is_valid_phone(strip(subs[j].cell_number))}}
    \cup
    {[run |-> r, row |-> i, chan |-> "email", to |-> strip(subs[i].email),
      codes |-> msg.body[2], header |-> msg.body[1]] :
        i \in {j \in DOMAIN subs : is_valid_email(strip(subs[j].email))}}

\* build_announcement_message(colors) and send_to_all_subscribers(...);
\* read_ok is whether get_all_subscribers() returned rather than raised
send_to_all_subscribers_stale(r, read_ok) ==
    /\ run[r].pc = "fanout"
    /\ LET msg  == build_announcement_message(run[r].colors)
       IN  sent' = sent \cup fanout_sends(r, get_all_subscribers, msg)
    /\ run' = [run EXCEPT ![r] = [@ EXCEPT !.pc = "mark", !.fanDay = today_cst_str,
                                    !.subsReadFailed = ~read_ok,
                                    !.steps = @ \o <<"format", "notify">>]]
    /\ UNCHANGED <<clock, LAST_SUCCESSFUL_SEND_DATE_CST, transcriptions,
                   subscribers, delivered, adminMail, epoch, outcomes, input, output, environ, script, smtp, process, responses, calls, welcome, submitted>>

send_to_all_subscribers(r, read_ok) ==
    /\ run[r].pc = "fanout"
    /\ LET msg  == build_announcement_message(run[r].colors)
           subs == IF read_ok THEN get_all_subscribers ELSE <<>>
       IN  sent' = sent \cup fanout_sends(r, subs, msg)
    /\ run' = [run EXCEPT ![r] = [@ EXCEPT !.pc = "mark", !.fanDay = today_cst_str,
                                    !.subsReadFailed = ~read_ok,
                                    !.logged = IF read_ok THEN @
                                               ELSE @ \cup {FAILED_TO_LOAD},
                                    !.steps = @ \o <<"format", "notify">>]]
    /\ UNCHANGED <<clock, LAST_SUCCESSFUL_SEND_DATE_CST, transcriptions,
                   subscribers, delivered, adminMail, epoch, outcomes, input, output, environ, script, smtp, process, responses, calls, welcome, submitted>>

\* LAST_SUCCESSFUL_SEND_DATE_CST = today_cst_str()
mark_sent_today_forgets(r) ==
    /\ run[r].pc = "mark"
    /\ run' = [run EXCEPT ![r] = [@ EXCEPT !.pc = "done", !.outcome = "sent",
                                    !.markDay = today_cst_str]]
    /\ UNCHANGED <<clock, LAST_SUCCESSFUL_SEND_DATE_CST, transcriptions, subscribers,
                   delivered, sent, adminMail, epoch, outcomes, input, output, environ, script, smtp, process, responses, calls, welcome, submitted>>

mark_sent_today(r) ==
    /\ run[r].pc = "mark"
    /\ LAST_SUCCESSFUL_SEND_DATE_CST' = today_cst_str
    /\ run' = [run EXCEPT ![r] = [@ EXCEPT !.pc = "done", !.outcome = "sent",
                                    !.markDay = today_cst_str]]
    /\ UNCHANGED <<clock, transcriptions, subscribers, delivered, sent,
                   adminMail, epoch, outcomes, input, output, environ, script, smtp, process, responses, calls, welcome, submitted>>

\* send_to_all_subscribers has no return statement: its result is None
fanout_result(r) == None

\* Pending(m): the thread async_task started for m has not run yet
Pending(m) == m \in sent /\ m \notin DOMAIN outcomes

\* how send_sms / send_email end: send_sms lets the exception of
\* client.messages.create escape into its thread, send_email catches the
\* exception of smtplib and prints it
send_outcome(chan, ok) ==
    IF ok THEN "sent"
    ELSE IF chan = "sms" THEN "raised"
    ELSE "printed"

\* a fan-out whose sends run one after another in the caller, so that an
\* exception ends the loop
send_task_serial(m, ok) ==
    /\ Pending(m)
    /\ \A k \in DOMAIN outcomes : k.run = m.run => outcomes[k] = "sent"
    /\ outcomes' = [k \in DOMAIN outcomes \cup {m} |->
                      IF k = m THEN send_outcome(m.chan, ok) ELSE outcomes[k]]
    /\ UNCHANGED <<clock, LAST_SUCCESSFUL_SEND_DATE_CST, transcriptions, subscribers,
                   delivered, run, sent, adminMail, epoch, input, output, environ, script, smtp, process, responses, calls, welcome, submitted>>

\* the thread of one send_sms(phone, sms_body) or send_email(email, ...)
\* task runs; ok is whether Twilio / the SMTP server accepted the message
send_task(m, ok) ==
    /\ Pending(m)
    /\ outcomes' = [k \in DOMAIN outcomes \cup {m} |->
                      IF k = m THEN send_outcome(m.chan, ok) ELSE outcomes[k]]
    /\ UNCHANGED <<clock, LAST_SUCCESSFUL_SEND_DATE_CST, transcriptions, subscribers,
                   delivered, run, sent, adminMail, epoch, input, output, environ, script, smtp, process, responses, calls, welcome, submitted>>

\* one step of the thread running process_recording_with_whisper
process_recording_with_whisper(r) ==
    \/ guard_memory(r)
    \/ \E read_ok \in BOOLEAN : guard_sheets(r, read_ok)
    \/ \E result \in {"download", "raise", "error", "text"} :
          download_and_transcribe(r, result)
    \/ \E ok \in BOOLEAN : save_daily_transcription(r, ok)
    \/ \E read_ok \in BOOLEAN : send_to_all_subscribers(r, read_ok)
    \/ mark_sent_today(r)

\* wall-clock time passes
Tick ==
    /\ clock < MaxClock
    /\ clock' = clock + 1
    /\ UNCHANGED <<LAST_SUCCESSFUL_SEND_DATE_CST, transcriptions, subscribers,
                   delivered, run, sent, adminMail, epoch, outcomes, input, output, environ, script, smtp, process, responses, calls, welcome, submitted>>

\* The process is restarted: module globals are re-initialised and the daemon
\* threads started by async_task die with the old process.
Restart ==
    /\ epoch < MaxRestarts
    /\ epoch' = epoch + 1
    /\ LAST_SUCCESSFUL_SEND_DATE_CST' = None
    /\ run' = [r \in Runs |->
                 IF Active(r) THEN [run[r] EXCEPT !.pc = "done", !.outcome = "killed"]
                 ELSE run[r]]
    /\ UNCHANGED <<clock, transcriptions, subscribers, delivered, sent,
                   adminMail, outcomes, input, output, environ, script, smtp, process, responses, calls, welcome, submitted>>

Next ==
    \/ \E sid \in RecordingSids, has_url \in BOOLEAN : recording_complete(sid, has_url)
    \/ \E r \in Runs : process_recording_with_whisper(r)
    \/ Tick
    \/ Restart

Spec == Init /\ [][Next]_vars

\* One process lifetime in which every webhook arrives after the run of the
\* one before it has ended: pipeline runs execute one after another.
Sequential == \A r \in Runs : ~Active(r)

NextSeq ==
    \/ \E sid \in RecordingSids, has_url \in BOOLEAN :
          Sequential /\ recording_complete(sid, has_url)
    \/ \E r \in Runs : process_recording_with_whisper(r)
    \/ Tick

SpecSeq == Init /\ [][NextSeq]_vars

\* The first webhook of a process lifetime, with the threads of the send
\* tasks of its run: every started send task runs at some point, in any
\* order, and is accepted or not.
NextSend ==
    \/ \E sid \in RecordingSids, has_url \in BOOLEAN :
          delivered = 0 /\ recording_complete(sid, has_url)
    \/ \E r \in Runs : process_recording_with_whisper(r)
    \/ \E m \in sent, ok \in BOOLEAN : send_task(m, ok)

SpecSend == Init /\ [][NextSend]_vars

\* ------------------------------------------------ extract_colors on its own
\* Words and phrases Whisper may return: color names with punctuation, a
\* known mishearing, and longer words that contain a color name.
ColorWords ==
    { <<"A","m","b","e","r",",">>, <<"T","e","a","l",","," ","r","o","l","l","s",".">>,
      <<"p","r","i","m","r","o","s","e">>, <<"p","l","a","t","i","n","u","m","f","o","i","l">>,
      <<"p","l","a","t","i","n","u","m">>, <<"t","e","a","l">> }

\* the texts of up to MaxWords of them
ColorTexts ==
    {join(<<" ">>, ws) : ws \in UNION {[1..n -> ColorWords] : n \in 1..MaxWords}}

InitColors ==
    /\ InitService
    /\ subscribers = SubscribersSheet
    /\ environ = FullEnviron
    /\ input \in ColorTexts
    /\ output = <<>>
    /\ script = "none"
    /\ smtp = <<>>
    /\ process = "serving"
    /\ responses = {}

\* colors = extract_colors(text)
call_extract_colors ==
    /\ output = <<>>
    /\ output' = <<extract_colors(input)>>
    /\ UNCHANGED <<clock, LAST_SUCCESSFUL_SEND_DATE_CST, transcriptions, subscribers,
                   delivered, run, sent, adminMail, epoch, outcomes, input, environ, script, smtp, process, responses, calls, welcome, submitted>>

NextColors == call_extract_colors

SpecColors == InitColors /\ [][NextColors]_vars

SentBy(r) == {m \in sent : m.run = r}

AdminBy(r) == {m \in adminMail : m.run = r}

FannedOut(r) == run[r].fanDay # None

\* the guard has returned for run r
Decided(r) == run[r].admitted \/ run[r].outcome = "skipped"

\* no earlier delivery carried the same recording (with a RecordingUrl)
FirstDelivery(r) ==
    \A q \in Runs : (q < r /\ run[q].sid = run[r].sid) => run[q].outcome = "no_url"

DownloadOrTranscribeFailed(r) == run[r].outcome \in {"download", "raise", "error"}

\* C1: in one process lifetime with runs executing one after another, no two
\* runs fan out on the same CST day, and once a run has fanned out and set
\* LAST_SUCCESSFUL_SEND_DATE_CST to a day, every later run whose guard runs on
\* that day is turned away by the guard and sends nothing.
C1_OneFanoutPerDaySequential ==
    /\ \A r1, r2 \in Runs :
          (FannedOut(r1) /\ FannedOut(r2) /\ run[r1].fanDay = run[r2].fanDay)
              => r1 = r2
    /\ \A r1, r2 \in Runs :
          (r1 < r2 /\ run[r1].outcome = "sent" /\ run[r2].today = run[r1].markDay)
              => (run[r2].outcome = "skipped" /\ ~run[r2].admitted /\ SentBy(r2) = {})

\* C1 witness: a run fanned out although its row was never saved, and a later
\* run of the same day was stopped, which only the in-memory guard can do.
C1_Witness ==
    \E r1, r2 \in Runs :
        /\ r1 < r2
        /\ run[r1].outcome = "sent" /\ run[r1].saveFailed /\ SentBy(r1) # {}
        /\ run[r2].outcome = "skipped" /\ run[r2].today = run[r1].markDay

\* C2: of the runs of one process lifetime whose guards ran on the same CST
\* day, under every interleaving at most one fans out and at most one appends
\* a transcription row.
C2_ConcurrentGuardSafe ==
    \A r1, r2 \in Runs :
        (r1 # r2 /\ run[r1].epoch = run[r2].epoch
           /\ run[r1].today # None /\ run[r1].today = run[r2].today)
            => /\ ~(FannedOut(r1) /\ FannedOut(r2))
               /\ ~(run[r1].appended /\ run[r2].appended)

\* C3: a delivery that arrives after a run for the same RecordingSid has saved
\* its row and sent its notifications appends nothing and sends nothing
\* (stated for the runs whose guard could read the log, so that a violation
\* does not rest on a failed read).
C3_RedeliveryAbsorbed ==
    \A r \in Runs :
        (run[r].priorSent /\ ~run[r].guardReadFailed)
            => (~run[r].appended /\ SentBy(r) = {})

\* C4: the guard lets a delivery through exactly when it is the first delivery
\* of its RecordingSid: repeats are rejected, distinct recordings are admitted.
C4_AdmitOncePerRecording ==
    \A r \in Runs : Decided(r) => (run[r].admitted <=> FirstDelivery(r))

\* C5: a run whose guard could not read the transcription log sends nothing
\* to any subscriber.
C5_GuardFailsClosed ==
    \A r \in Runs : run[r].guardReadFailed => SentBy(r) = {}

\* C6: after a run has sent notifications on CST day D and the process has
\* restarted, a run whose guard runs on day D is rejected by the guard
\* (stated for a first run that saved its row and a second whose guard could
\* read the log, so that a violation rests on neither failure).
C6_GuardSurvivesRestart ==
    \A r1, r2 \in Runs :
        (SentBy(r1) # {} /\ run[r1].appended /\ ~run[r1].guardReadFailed
           /\ run[r1].epoch < run[r2].epoch
           /\ run[r2].today = run[r1].fanDay /\ ~run[r2].guardReadFailed)
            => ~run[r2].admitted

\* C7: every message a fan-out dispatches goes to a subscriber whose active
\* flag is set.
C7_InactiveNeverSent ==
    \A m \in sent : subscribers[m.row][5] = "YES"

\* C8: every message the Huntsville run dispatches goes to a subscriber
\* registered for the Huntsville testing center.
C8_OnlyOwnCenter ==
    \A m \in sent : subscribers[m.row][4] = HUNTSVILLE

\* C9: a run whose transcript names no color persists a record and sends the
\* subscribers the no-color message.
C9_NoColorDayNotified ==
    \A r \in Runs :
        run[r].outcome = "no_colors"
            => /\ run[r].appended
               /\ \E m \in SentBy(r) : m.codes = NO_CODES_CONFIRMED

C11_ReadFailureSendsNothing ==
    \A r \in Runs :
        run[r].subsReadFailed =>
            /\ SentBy(r) = {}
            /\ FAILED_TO_LOAD \in run[r].logged

C11_Witness ==
    \E r \in Runs :
        /\ run[r].subsReadFailed /\ run[r].outcome = "sent"
        /\ Len(subscribers) > 1
        /\ \E q \in Runs : SentBy(q) # {}

Failed(m) == m \in DOMAIN outcomes /\ outcomes[m] # "sent"

\* every row with a usable contact has its task started by the fan-out of r
AllAttempted(r) ==
    \A i \in DOMAIN subscribers :
        /\ is_valid_phone(strip(subscribers[i][3])) =>
              \E m \in SentBy(r) : m.row = i /\ m.chan = "sms"
        /\ is_valid_email(strip(subscribers[i][2])) =>
              \E m \in SentBy(r) : m.row = i /\ m.chan = "email"

C13_GuardBeforeDownload ==
    \A r \in Runs :
        /\ run[r].steps # <<>> => run[r].steps[1] = "guard"
        /\ run[r].outcome = "skipped" =>
              /\ run[r].steps = <<"guard">>
              /\ run[r].text = <<>>
              /\ ~run[r].appended /\ ~run[r].saveFailed
              /\ SentBy(r) = {} /\ AdminBy(r) = {}

C13_Witness ==
    \E r, q \in Runs :
        /\ run[q].outcome = "sent" /\ run[q].appended /\ SentBy(q) # {}
        /\ run[r].outcome = "skipped" /\ run[r].pc = "done"
        /\ Len(transcriptions) = 1

IsPrefix(s, t) == Len(s) <= Len(t) /\ \A i \in 1..Len(s) : s[i] = t[i]

IsPipelineStep(x) == x \in {"normalize", "extract", "format", "persist", "notify"}

AppendOnly ==
    /\ IsPrefix(transcriptions, transcriptions')
    /\ Len(transcriptions') <= Len(transcriptions) + 1

AllRunsEnded == \A r \in Runs : ~Active(r)

CleanSentences ==
    { <<"C","o","l","o","r","s",":"," ","a","m","b","e","r","."," ","Y","o","u"," ","m","u","s","t"," ","r","e","p","o","r","t"," ","t","o"," ","d","r","u","g"," ","s","c","r","e","e","n",".">>,
      <<"C","a","l","l"," ","M","o","n","d","a","y",".">>,
      <<"C","o","l","o","r","s",":"," ","a","m","b","e","r",".">>,
      <<"Y","O","U"," ","M","U","S","T"," ","R","E","P","O","R","T"," ","T","O"," ","D","R","U","G"," ","S","T","R","E","E","T",".">>,
      <<"T","h","e","n"," ","h","o","l","d">> }

\* the transcripts of up to MaxSentences of them
CleanTexts ==
    {join(<<" ">>, ws) : ws \in UNION {[1..n -> CleanSentences] : n \in 1..MaxSentences}}

InitClean ==
    /\ InitService
    /\ subscribers = SubscribersSheet
    /\ environ = FullEnviron
    /\ input \in CleanTexts
    /\ output = <<>>
    /\ script = "none"
    /\ smtp = <<>>
    /\ process = "serving"
    /\ responses = {}

\* transcription = clean_transcription(raw_text)
call_clean_transcription ==
    /\ output = <<>>
    /\ output' = <<clean_transcription(input)>>
    /\ UNCHANGED <<clock, LAST_SUCCESSFUL_SEND_DATE_CST, transcriptions, subscribers,
                   delivered, run, sent, adminMail, epoch, outcomes, input, environ, script, smtp, process, responses, calls, welcome, submitted>>

NextClean == call_clean_transcription

SpecClean == InitClean /\ [][NextClean]_vars

\* ------------------------------------- the web process and its settings
\* the settings app.py cannot work without
RequiredSettings ==
    {"APP_BASE_URL", "TWILIO_ACCOUNT_SID", "TWILIO_AUTH_TOKEN", "TWILIO_FROM_NUMBER",
     "OPENAI_API_KEY"}

\* a process started with any of the required settings unset
InitConfig ==
    /\ InitService
    /\ subscribers = SubscribersSheet
    /\ environ \in {[k \in DOMAIN FullEnviron \ M |-> FullEnviron[k]] :
                       M \in SUBSET RequiredSettings}
    /\ input = <<>>
    /\ output = <<>>
    /\ script = "none"
    /\ smtp = <<>>
    /\ process = "starting"
    /\ responses = {}

\* The module is imported: the settings are read with os.environ.get, which
\* returns None for a missing one, and Client(TWILIO_ACCOUNT_SID,
\* TWILIO_AUTH_TOKEN) is constructed; client_ok is whether the Twilio
\* library accepts being constructed without credentials.
startup(client_ok) ==
    /\ process = "starting"
    /\ process' = IF (IsSet("TWILIO_ACCOUNT_SID") /\ IsSet("TWILIO_AUTH_TOKEN")) \/ client_ok
                  THEN "serving" ELSE "crashed"
    /\ UNCHANGED <<clock, LAST_SUCCESSFUL_SEND_DATE_CST, transcriptions, subscribers,
                   delivered, run, sent, adminMail, epoch, outcomes, input, output,
                   environ, script, smtp, responses, calls, welcome, submitted>>

\* start_color_line_call(): the exception it raises or the sid of the call
\* it placed; created is whether twilio_client.calls.create returned
start_color_line_call(created) ==
    IF ~IsSet("APP_BASE_URL")
    THEN [raised |-> TRUE, value |-> "APP_BASE_URL is not set"]
    ELSE IF ~IsSet("TWILIO_ACCOUNT_SID") \/ ~IsSet("TWILIO_AUTH_TOKEN")
            \/ ~IsSet("TWILIO_FROM_NUMBER")
         THEN [raised |-> TRUE, value |-> "Twilio env vars missing"]
    ELSE IF ~created
         THEN [raised |-> TRUE, value |-> "calls.create raised"]
    ELSE [raised |-> FALSE, value |-> "call.sid"]

\* /daily-call: the cron trigger places one outbound call a time it is hit
daily_call(created) ==
    /\ process = "serving"
    /\ calls < MaxCalls
    /\ LET e == start_color_line_call(created)
       IN  /\ responses' = responses \cup
                  {IF e.raised THEN [status |-> 500, message |-> e.value]
                   ELSE [status |-> 200, message |-> "started"]}
           /\ calls' = IF e.raised THEN calls ELSE calls + 1
    /\ UNCHANGED <<clock, LAST_SUCCESSFUL_SEND_DATE_CST, transcriptions, subscribers,
                   delivered, run, sent, adminMail, epoch, outcomes, input, output,
                   environ, script, smtp, process, welcome, submitted>>

\* A process lifetime from its start: the cron trigger, the first webhook
\* and the run it starts.
NextConfig ==
    \/ \E client_ok \in BOOLEAN : startup(client_ok)
    \/ \E created \in BOOLEAN : daily_call(created)
    \/ \E sid \in RecordingSids, has_url \in BOOLEAN :
          process = "serving" /\ delivered = 0 /\ recording_complete(sid, has_url)
    \/ \E r \in Runs : process_recording_with_whisper(r)

SpecConfig == InitConfig /\ [][NextConfig]_vars

\* get_form_field(data, *keys): the stripped value of the first key that is
\* present with a non-blank value, else ""
get_form_field(data, keys) ==
    LET hits == {i \in DOMAIN keys :
                    keys[i] \in DOMAIN data /\ strip(data[keys[i]]) # <<>>}
    IN  IF hits = {} THEN <<>>
        ELSE strip(data[keys[CHOOSE i \in hits : \A j \in hits : i <= j]])

\* the welcome tasks /submit starts for request n: with an announcement
\* built today from the text of the latest stored row when there is one
\* (latest is its row number), else with the plain subscription notice
welcome_sends(n, email, phone, last_text) ==
    LET msg  == build_announcement_message(extract_colors_of[last_text])
        with == [announcement |-> TRUE, header |-> msg.sms[1], codes |-> msg.sms[2],
                 latest |-> Len(transcriptions)]
        none == [announcement |-> FALSE, header |-> None, codes |-> <<>>, latest |-> 0]
        text == IF last_text # <<>> THEN with ELSE none
    IN  (IF is_valid_phone(phone)
         THEN {[req |-> n, chan |-> "sms", to |-> phone, text |-> text]} ELSE {})
        \cup
        (IF is_valid_email(email)
         THEN {[req |-> n, chan |-> "email", to |-> email, text |-> text]} ELSE {})

\* a signup that stores the row before it looks at the fields
submit_unvalidated(form, add_ok, read_ok) ==
    /\ process = "serving"
    /\ Len(submitted) < MaxSubmits
    /\ LET full_name      == get_form_field(form, <<"full_name", "name", "Name">>)
           email          == get_form_field(form, <<"email", "Email">>)
           phone          == get_form_field(form, <<"phone", "cell", "cell_number", "Cell Number">>)
           testing_center == get_form_field(form, <<"testing_center", "Testing Center">>)
       IN  /\ subscribers' = Append(subscribers, <<full_name, email, phone, testing_center>>)
           /\ submitted' = Append(submitted,
                  [form |-> form,
                   status |-> IF email = <<>> \/ phone = <<>> \/ testing_center = <<>>
                              THEN 400 ELSE 200])
    /\ UNCHANGED <<clock, LAST_SUCCESSFUL_SEND_DATE_CST, transcriptions, delivered, run,
                   sent, adminMail, epoch, outcomes, input, output, environ, script,
                   smtp, process, responses, calls, welcome>>

\* a signup that also places the day's call
submit_calling(form, add_ok, read_ok) ==
    /\ process = "serving"
    /\ Len(submitted) < MaxSubmits
    /\ submitted' = Append(submitted, [form |-> form, status |-> 200])
    /\ calls' = calls + 1
    /\ UNCHANGED <<clock, LAST_SUCCESSFUL_SEND_DATE_CST, transcriptions, subscribers,
                   delivered, run, sent, adminMail, epoch, outcomes, input, output,
                   environ, script, smtp, process, responses, welcome>>

\* /submit: add_ok is whether add_subscriber returned rather than raised,
\* read_ok whether get_latest_transcription did; either failure is only
\* logged
submit(form, add_ok, read_ok) ==
    /\ process = "serving"
    /\ Len(submitted) < MaxSubmits
    /\ LET n              == Len(submitted) + 1
           full_name      == get_form_field(form, <<"full_name", "name", "Name">>)
           email          == get_form_field(form, <<"email", "Email">>)
           phone          == get_form_field(form, <<"phone", "cell", "cell_number", "Cell Number">>)
           testing_center == get_form_field(form, <<"testing_center", "Testing Center">>)
       IN  IF email = <<>> \/ phone = <<>> \/ testing_center = <<>>
           THEN /\ submitted' = Append(submitted, [form |-> form, status |-> 400])
                /\ UNCHANGED <<subscribers, welcome>>
           ELSE /\ subscribers' =
                       IF add_ok
                       THEN Append(subscribers, <<full_name, email, phone, testing_center>>)
                       ELSE subscribers
                /\ LET last_text == IF read_ok THEN get_latest_transcription[2] ELSE None
                   IN  welcome' = welcome \cup welcome_sends(n, email, phone, last_text)
                /\ submitted' = Append(submitted, [form |-> form, status |-> 200])
    /\ UNCHANGED <<clock, LAST_SUCCESSFUL_SEND_DATE_CST, transcriptions, delivered, run,
                   sent, adminMail, epoch, outcomes, input, output, environ, script,
                   smtp, process, responses, calls>>

\* The service with its three triggers: signups, the cron trigger (whose
\* call Twilio accepts), and the first webhook of the day's call with the
\* run it starts, while time passes.
NextSubmit ==
    \/ \E form \in Forms, add_ok \in BOOLEAN, read_ok \in BOOLEAN :
          submit(form, add_ok, read_ok)
    \/ daily_call(TRUE)
    \/ \E sid \in RecordingSids, has_url \in BOOLEAN :
          delivered = 0 /\ recording_complete(sid, has_url)
    \/ \E r \in Runs : process_recording_with_whisper(r)
    \/ Tick

SpecSubmit == Init /\ [][NextSubmit]_vars

\* ------------------------------------------- transcribe_and_log.py, one run
\* The script runs from top to bottom once; an exception that escapes ends
\* it.  It reads its settings with os.environ[...] before anything else.
TESTING_CENTER == environ.TESTING_CENTER

PUBLIC_TO_EMAIL == environ.PUBLIC_TO_EMAIL

InitScript ==
    /\ InitService
    /\ subscribers \in SubscriberSheets
    /\ environ \in {[FullEnviron EXCEPT !.TESTING_CENTER = c] : c \in CENTER_CONFIG}
    /\ input \in RawTexts
    /\ output = <<>>
    /\ script = "start"
    /\ smtp = <<>>
    /\ process = "serving"
    /\ responses = {}

\* the download of the recording, openai.Audio.transcribe and
\* clean_transcription(raw_text); ok is whether neither call raised
script_transcribe(ok) ==
    /\ script = "start"
    /\ IF ok
       THEN /\ output' = <<clean_transcription(input)>>
            /\ script' = "log"
       ELSE /\ script' = "crashed"
            /\ UNCHANGED output
    /\ UNCHANGED <<clock, LAST_SUCCESSFUL_SEND_DATE_CST, transcriptions, subscribers,
                   delivered, run, sent, adminMail, epoch, outcomes, input, environ,
                   smtp, process, responses, calls, welcome, submitted>>

\* sheet.values().append(...) to the center's sheet: date, time and text in
\* columns A, B and F
script_log(ok) ==
    /\ script = "log"
    /\ IF ok
       THEN /\ transcriptions' =
                  Append(transcriptions,
                         <<today_cst_str, <<clock % 2>>, <<>>, <<>>, <<>>, output[1]>>)
            /\ script' = "email"
       ELSE /\ script' = "crashed"
            /\ UNCHANGED transcriptions
    /\ UNCHANGED <<clock, LAST_SUCCESSFUL_SEND_DATE_CST, subscribers, delivered, run,
                   sent, adminMail, epoch, outcomes, input, output, environ, smtp, process, responses, calls, welcome, submitted>>

\* the list comprehension over the rows of Subscribers!A2:G
RECURSIVE center_emails(_)
center_emails(rows) ==
    IF rows = <<>> THEN <<>>
    ELSE LET r == Head(rows)
         IN  (IF /\ Len(r) >= 5
                 /\ strip(r[2]) # <<>>
                 /\ strip(r[4]) = TESTING_CENTER
                 /\ upper(strip(r[5])) = <<"Y","E","S">>
              THEN <<strip(r[2])>> ELSE <<>>)
             \o center_emails(Tail(rows))

\* msg.as_string(): the headers that name addresses
as_string(to, bcc) == [To |-> to, Bcc |-> bcc]

\* rows = ...get("values", []), emails = [...] and, if there are any, one
\* server.sendmail(SMTP_FROM_EMAIL, [PUBLIC_TO_EMAIL] + emails, msg.as_string()).
\* The message is handed over as written, with its Bcc header; relay_strips
\* is whether the SMTP relay removes that header before it delivers.
script_email(ok, relay_strips) ==
    /\ script = "email"
    /\ LET emails == center_emails(Tail(subscribers))
           data   == as_string(PUBLIC_TO_EMAIL, emails)
       IN  IF ~ok THEN script' = "crashed" /\ UNCHANGED smtp
           ELSE /\ script' = "done"
                /\ smtp' = IF emails = <<>> THEN smtp
                           ELSE Append(smtp,
                                  [to_addrs |-> <<PUBLIC_TO_EMAIL>> \o emails,
                                   msg      |-> data,
                                   received |-> IF relay_strips
                                                THEN [data EXCEPT !.Bcc = <<>>]
                                                ELSE data])
    /\ UNCHANGED <<clock, LAST_SUCCESSFUL_SEND_DATE_CST, transcriptions, subscribers,
                   delivered, run, sent, adminMail, epoch, outcomes, input, output,
                   environ, process, responses, calls, welcome, submitted>>

NextScript ==
    \/ \E ok \in BOOLEAN : script_transcribe(ok)
    \/ \E ok \in BOOLEAN : script_log(ok)
    \/ \E ok, relay_strips \in BOOLEAN : script_email(ok, relay_strips)

SpecScript == InitScript /\ [][NextScript]_vars

\* ----------------------------------------------------------------- claims
\* the color name c stands at offset i of t as a whole word
WholeWordAt(c, t, i) ==
    /\ i + Len(c) - 1 <= Len(t)
    /\ SubSeq(t, i, i + Len(c) - 1) = c
    /\ (i = 1 \/ ~IsWordChar(t[i - 1]))
    /\ (i + Len(c) - 1 = Len(t) \/ ~IsWordChar(t[i + Len(c)]))

OccursIn(c, t) == \E i \in 1..Len(t) : WholeWordAt(c, t, i)

FirstOffset(c, t) ==
    CHOOSE i \in 1..Len(t) :
        WholeWordAt(c, t, i) /\ \A j \in 1..(i - 1) : ~WholeWordAt(c, t, j)

\* c occurs in t, and only inside longer words
InsideOnly(c, t) ==
    /\ \E i \in 1..Len(t) : i + Len(c) - 1 <= Len(t) /\ SubSeq(t, i, i + Len(c) - 1) = c
    /\ ~OccursIn(c, t)

\* C16: extract_colors returns a list without duplicates that holds exactly
\* the vocabulary colors occurring in the mishear-normalized text, ordered
\* by the offset of their first occurrence; so a looped transcript yields
\* each announced color once, in announced order.
C16_ColorsOnceInOrder ==
    output # <<>> =>
        \A found \in {output[1]}, t \in {normalize_common_mishears(input)} :
            /\ \A i, j \in DOMAIN found : i # j => found[i] # found[j]
            /\ Range(found) = {upper(c) : c \in {d \in Range(VALID_COLORS) : OccursIn(d, t)}}
            /\ \A i, j \in DOMAIN found :
                  i < j => FirstOffset(lower(found[i]), t) < FirstOffset(lower(found[j]), t)

C16_Witness ==
    /\ input = <<"T","e","a","l",","," ","r","o","l","l","s","."," ","T","e","a","l",","," ","r","o","l","l","s",".">>
    /\ output = << << <<"T","E","A","L">>, <<"R","O","S","E">> >> >>

\* C17 as stated: a vocabulary color that occurs in the input only as a
\* proper substring of a longer word is not in the result.
C17_InsideInputOnly ==
    output # <<>> =>
        \A t \in {lower(input)}, c \in Range(VALID_COLORS) :
            InsideOnly(c, t) => upper(c) \notin Range(output[1])

\* C17, amended: a vocabulary color that occurs in the mishear-normalized
\* text only as a proper substring of a longer word is not in the result.
C17_WordBoundaries ==
    output # <<>> =>
        \A t \in {normalize_common_mishears(input)}, c \in Range(VALID_COLORS) :
            InsideOnly(c, t) => upper(c) \notin Range(output[1])

C17_Witness ==
    /\ input = <<"p","l","a","t","i","n","u","m","f","o","i","l"," ","A","m","b","e","r",",">>
    /\ output = << << <<"A","M","B","E","R">> >> >>

\* the sentences of x in lower case: what stands between the periods,
\* stripped, the empty ones left out
LowerSentences(x) ==
    LET parts    == split_on(x, <<".">>, 1)
        stripped == [i \in DOMAIN parts |-> lower(strip(parts[i]))]
    IN  SelectSeq(stripped, LAMBDA p : p # <<>>)

NoRepeats(seq) == \A i, j \in DOMAIN seq : i # j => seq[i] # seq[j]

\* C18: when the (lower-cased, mishearing-corrected) transcript holds the
\* stop phrase, the output of clean_transcription holds the sentences of
\* the text up to and including its first occurrence, each exactly once,
\* and nothing else, however often the stop phrase recurs; when the transcript
\* does not hold the stop phrase the truncation changes nothing and every
\* sentence of the transcript is in the output.
C18_TruncateAtStopPhrase ==
    output # <<>> =>
        LET out == LowerSentences(output[1])
            n   == fix_mishearings(input)
        IN  /\ NoRepeats(out)
            /\ IF contains(n, stop_phrase)
               THEN LET pre == SubSeq(n, 1, find(n, stop_phrase, 1) - 1)
                    IN  Range(out) = Range(LowerSentences(pre \o stop_phrase))
               ELSE /\ stop_at_end_phrase(n) = n
                    /\ Range(out) = Range(LowerSentences(n))

C18_Witness ==
    /\ input = <<"C","a","l","l"," ","M","o","n","d","a","y","."," ","C","o","l","o","r","s",":"," ","a","m","b","e","r","."," ","Y","o","u"," ","m","u","s","t"," ","r","e","p","o","r","t"," ","t","o"," ","d","r","u","g"," ","s","c","r","e","e","n","."," ","C","o","l","o","r","s",":"," ","a","m","b","e","r","."," ","Y","o","u"," ","m","u","s","t"," ","r","e","p","o","r","t"," ","t","o"," ","d","r","u","g"," ","s","c","r","e","e","n",".">>
    /\ output = << <<"C","a","l","l"," ","M","o","n","d","a","y","."," ","C","o","l","o","r","s",":"," ","a","m","b","e","r","."," ","Y","o","u"," ","m","u","s","t"," ","r","e","p","o","r","t"," ","t","o"," ","d","r","u","g"," ","s","c","r","e","e","n",".">> >>

\* the addresses of the active subscribers of the script's center
ActiveOfCenter ==
    {strip(subscribers[i][2]) :
        i \in {j \in 2..Len(subscribers) :
                 /\ Len(subscribers[j]) >= 5
                 /\ strip(subscribers[j][2]) # <<>>
                 /\ strip(subscribers[j][4]) = TESTING_CENTER
                 /\ upper(strip(subscribers[j][5])) = <<"Y","E","S">>}}

\* the addresses a recipient can read in the message it receives
Exposed(m) == {m.received.To} \cup Range(m.received.Bcc)

\* C19: the message of the BCC fan-out has PUBLIC_TO_EMAIL as its To header,
\* goes to the operator address and the active subscribers of the run's
\* center and to no one else, and as received by a subscriber it shows no
\* other subscriber's address.
C19_BccHidesSubscribers ==
    \A k \in DOMAIN smtp :
        /\ smtp[k].msg.To = PUBLIC_TO_EMAIL
        /\ Range(smtp[k].to_addrs) = {PUBLIC_TO_EMAIL} \cup ActiveOfCenter
        /\ \A s \in ActiveOfCenter :
              Exposed(smtp[k]) \cap (ActiveOfCenter \ {s}) = {}

\* C20: when a required setting (APP_BASE_URL, the Twilio credentials and
\* from-number, OPENAI_API_KEY) is unset, the process does not get to serve
\* requests, so no /daily-call answers with an error and no pipeline run
\* fails for lack of the setting.
C20_MissingSettingFatalAtStartup ==
    (\E k \in RequiredSettings : ~IsSet(k)) =>
        /\ process # "serving"
        /\ \A resp \in responses : resp.status = 200
        /\ \A r \in Runs : run[r].outcome # "raise"

\* -------------------------------------------------------------- /submit
\* the step is the handling of a /submit request; the request it handled
SubmitStep == Len(submitted') = Len(submitted) + 1

Handled == submitted'[Len(submitted')]

\* C21: handling a /submit signup places no outbound call and starts no
\* pipeline run; it leaves LAST_SUCCESSFUL_SEND_DATE_CST and the
\* transcription log as they were, and the only send tasks it starts are
\* welcome messages to a phone number or address given in the form.
C21_SubmitFrame ==
    [][SubmitStep =>
         /\ calls' = calls
         /\ delivered' = delivered /\ run' = run
         /\ LAST_SUCCESSFUL_SEND_DATE_CST' = LAST_SUCCESSFUL_SEND_DATE_CST
         /\ transcriptions' = transcriptions
         /\ sent' = sent /\ adminMail' = adminMail
         /\ welcome \subseteq welcome'
         /\ \A m \in welcome' \ welcome :
               /\ m.req = Len(submitted')
               /\ m.to \in {strip(Handled.form[k]) : k \in DOMAIN Handled.form}]_vars

\* a signup was accepted after the day's call was placed and its
\* announcement stored and sent, and welcome messages with that
\* announcement went out
C21_Witness ==
    /\ calls > 0
    /\ LAST_SUCCESSFUL_SEND_DATE_CST # None
    /\ \E i \in DOMAIN submitted :
          /\ submitted[i].status = 200
          /\ \E m \in welcome : m.req = i /\ m.text.announcement

\* the form carries a non-blank value under one of the keys
HasField(f, keys) ==
    \E k \in keys \cap DOMAIN f : \E i \in DOMAIN f[k] : ~IsSpace(f[k][i])

Incomplete(f) ==
    \/ ~HasField(f, {"email", "Email"})
    \/ ~HasField(f, {"phone", "cell", "cell_number", "Cell Number"})
    \/ ~HasField(f, {"testing_center", "Testing Center"})

\* C26: a /submit request without an email, a phone number or a testing
\* center is answered with status 400 and changes nothing: no row is
\* appended to the Subscribers sheet and no welcome message is started.
C26_IncompleteRejected ==
    [][(SubmitStep /\ Incomplete(Handled.form)) =>
         /\ Handled.status = 400
         /\ subscribers' = subscribers
         /\ welcome' = welcome
         /\ sent' = sent /\ adminMail' = adminMail /\ calls' = calls
         /\ transcriptions' = transcriptions]_vars

\* requests with a missing and with a blank field were rejected
C26_Witness ==
    /\ \E i \in DOMAIN submitted :
          submitted[i].status = 400 /\ "email" \notin DOMAIN submitted[i].form
    /\ Len(subscribers) = Len(SubscribersSheet)
    /\ welcome = {}

\* ----------------------------------------------- the day guard's calendar
\* run r appends its row to the DailyTranscriptions sheet in this step
Persists(r) == run[r].pc = "save" /\ run'[r].appended

\* C22: the date save_daily_transcription writes to a row is the CST date
\* of the run, so the log check of should_send_today_guard recognises the
\* row as a record of that day for the rest of the day.
C22_RowDatedByGuardDay ==
    [][\A r \in Runs :
         Persists(r) =>
             sheets_hit(transcriptions'[Len(transcriptions')][1], today_cst_str)]_vars

\* C23: LAST_SUCCESSFUL_SEND_DATE_CST is set to a day only by a run whose
\* notification went out: a run whose read of the subscriber list failed,
\* which started no send, does not write the date, and leaves a later
\* webhook of that day free to notify.
C23_MarkOnlyAfterSends ==
    \A r \in Runs :
        run[r].subsReadFailed =>
            /\ run[r].markDay = None
            /\ (~Active(r) /\ SentBy(r) = {}) =>
                   LAST_SUCCESSFUL_SEND_DATE_CST # run[r].fanDay

\* ------------------------------------------------ runs that end in failure
\* how a run ends when it fails before the fan-out
Failures == {"download", "raise", "error", "no_colors"}

\* run r moves in this step, and is afterwards at a point a run passes on
\* its way to such an end, or at that end
OnFailingPath(r) ==
    /\ run'[r] # run[r]
    /\ \/ run'[r].pc \in {"guard", "guard_sheets", "download"}
       \/ run'[r].outcome \in Failures

RowWriter(i) ==
    CHOOSE r \in Runs :
        run[r].appended /\ Cardinality({q \in 1..r : run[q].appended}) = i

RecordedOn(r) == run[r].today

\* C25: no announcement is carried across days: a message to a subscriber
\* whose header shows day D, be it an announcement of the fan-out or the
\* welcome message /submit builds from the latest stored transcription,
\* lists the colors of a transcription recorded on day D.
C25_NeverAcrossDays ==
    /\ \A m \in sent : m.header = RecordedOn(m.run)
    /\ \A m \in welcome :
          m.text.announcement => m.text.header = RecordedOn(RowWriter(m.text.latest))

====
